---- MODULE Spec2Model ----
(***************************************************************************)
(* The streaming response pipeline: one streamResponse call of the        *)
(* OpenRouter provider (the Stream Session) driven by beginStreaming of   *)
(* the chat context (the Streaming Aggregator).                           *)
(*                                                                         *)
(* Four specifications share the state: Spec follows one streamResponse    *)
(* call event by event, with cancellation, watchdog and retries; SpecSend  *)
(* follows one exchange sent with web search, with its automatic re-send;  *)
(* SpecDecode follows the read loop of one attempt byte by byte; SpecBuild *)
(* follows the building of one request body (cache breakpoints).           *)
(*                                                                         *)
(* JavaScript runs one task to completion, so an action is the code that  *)
(* runs between two suspension points (await, timer, animation frame,     *)
(* user event). Texts are sequences of characters; a chunk is a non-empty *)
(* text and concatenation is \o.                                          *)
(***************************************************************************)
EXTENDS Integers, Sequences, FiniteSets, TLC

\* ---------------------------------------------------------------- constants

\* const MAX_RETRIES = 2
MAX_RETRIES == 2

\* Total number of events carrying a delta that the server sends over one call.
MaxEvents == 3

\* The content deltas a server may send (non-empty: `if (chunk) onChunk(chunk)`).
Chunks == { <<"a">>, <<"b">> }

\* The reasoning delta a server may send.
ReasoningChunk == <<"r">>

\* Non-2xx statuses the server may answer with.
ErrorStatuses == { 401, 429, 500 }

\* The bodies of a non-2xx response, as handleApiError reads them: whether the
\* text parses as JSON, whether the document has error.message, and what it
\* says (that the web plugin is not supported, something else, or nothing).
ErrorBodies ==
    { [ json |-> TRUE,  hasMessage |-> TRUE,  message |-> "plugin" ],
      [ json |-> TRUE,  hasMessage |-> TRUE,  message |-> "other" ],
      [ json |-> TRUE,  hasMessage |-> TRUE,  message |-> "" ],
      [ json |-> TRUE,  hasMessage |-> FALSE, message |-> "" ],
      [ json |-> FALSE, hasMessage |-> FALSE, message |-> "" ] }

\* No response body has been read.
NoBody == [ json |-> FALSE, hasMessage |-> FALSE, message |-> "" ]

\* ---------------------------------------------------------------- wire format

LF == "\n"
CR == "\r"

\* The line terminators a server may use.
LineEndings == { << LF >>, << CR, LF >> }

\* 'data:', the field name the decoder looks for, and '[DONE]'.
DataField == << "d", "a", "t", "a", ":" >>
DoneText == << "[", "D", "O", "N", "E", "]" >>

\* The longest response body, counted in blocks (events or single lines).
MaxBlocks == 2

\* The most bytes one reader.read() hands out.
MaxRead == 10

Min(a, b) == IF a <= b THEN a ELSE b

\* A JSON document is written here as a sequence of two-character members,
\* separated by optional line feeds: c<x> is choices[0].delta.content = x,
\* r<x> is choices[0].delta.reasoning = x, u<n> is usage = n. Every other text
\* is not JSON. A block is the lines of one event with its closing blank line
\* (a comment may stand between its data lines; an event may have a name and
\* no data), or one comment line that belongs to no event.
Blocks ==
    { << DataField \o << " ", "c", "a" >>, << >> >>,
      << DataField \o << "c", "b" >>, << >> >>,
      << DataField \o << "r", "r" >>, << ":", "k" >>,
         DataField \o << " ", "c", "a" >>, << >> >>,
      << DataField \o << " ", "u", "1" >>, << >> >>,
      << DataField \o << " ", "c", "b", "u", "2" >>, << >> >>,
      << DataField \o << " ", "{" >>, << >> >>,
      << DataField \o << " " >> \o DoneText, << >> >>,
      << << ":", " ", "k" >> >>,
      << << "e", "v", "e", "n", "t", ":", "m" >>, << >> >> }

\* What may follow the last block: nothing, the data line of an event that is
\* never closed, or a line that is never terminated.
Tails ==
    { [ lines |-> << >>, rest |-> << >> ],
      [ lines |-> << DataField \o << " ", "c", "a", "u", "1" >> >>, rest |-> << >> ],
      [ lines |-> << >>, rest |-> DataField \o << " ", "c", "b" >> ] }

\* The lines of a sequence of blocks, in order.
RECURSIVE Flatten(_)
Flatten(blocks) ==
    IF blocks = << >> THEN << >> ELSE Head(blocks) \o Flatten(Tail(blocks))

\* The characters of a sequence of lines, each closed by the terminator eol.
RECURSIVE Encode(_, _)
Encode(lines, eol) ==
    IF lines = << >> THEN << >>
    ELSE Head(lines) \o eol \o Encode(Tail(lines), eol)

\* The response bodies a server may send.
Bodies ==
    { Encode(Flatten(bs) \o tl.lines, eol) \o tl.rest :
        bs \in UNION { [ 1 .. n -> Blocks ] : n \in 0 .. MaxBlocks },
        eol \in LineEndings,
        tl \in Tails }

\* ---------------------------------------------------------------- decoder

\* buffer.indexOf('\n', start), counted from 1; 0 when there is none. start is
\* the number of characters before the position the search starts at.
indexOf(buffer, start) ==
    LET found == { i \in start + 1 .. Len(buffer) : buffer[i] = LF }
    IN  IF found = {} THEN 0
        ELSE CHOOSE i \in found : \A j \in found : i <= j

\* line.startsWith(prefix)
startsWith(line, prefix) ==
    /\ Len(line) >= Len(prefix)
    /\ SubSeq(line, 1, Len(prefix)) = prefix

\* eventDataParts.join('\n')
RECURSIVE join(_)
join(parts) ==
    IF parts = << >> THEN << >>
    ELSE IF Len(parts) = 1 THEN parts[1]
    ELSE parts[1] \o << LF >> \o join(Tail(parts))

\* What JSON.parse throws on.
ParseError ==
    [ ok |-> FALSE, content |-> << >>, reasoning |-> << >>, usage |-> << >> ]

\* The members of a document read from left to right into acc; line feeds
\* between members are white space.
RECURSIVE ParseMembers(_, _)
ParseMembers(text, acc) ==
    IF text = << >> THEN acc
    ELSE IF text[1] = LF THEN ParseMembers(Tail(text), acc)
    ELSE IF Len(text) < 2 THEN ParseError
    ELSE LET value == << text[2] >>
             rest == SubSeq(text, 3, Len(text))
         IN  IF text[1] = "c" /\ text[2] \in { "a", "b" }
             THEN ParseMembers(rest, [ acc EXCEPT !.content = value ])
             ELSE IF text[1] = "r" /\ text[2] \in { "r" }
             THEN ParseMembers(rest, [ acc EXCEPT !.reasoning = value ])
             ELSE IF text[1] = "u" /\ text[2] \in { "1", "2" }
             THEN ParseMembers(rest, [ acc EXCEPT !.usage = value ])
             ELSE ParseError

\* JSON.parse(dataStr) with the three members the loop reads; the empty text
\* is not JSON.
JSONparse(dataStr) ==
    IF dataStr = << >> THEN ParseError
    ELSE ParseMembers(dataStr, [ ParseError EXCEPT !.ok = TRUE ])

\* One callback invocation in the log.
Call(name, arg) == [ callback |-> name, arg |-> arg ]

\* A faulty dispatch that ends the call on a payload that is not JSON.
DispatchEventStrict(d, dataStr) ==
    LET parsed == JSONparse(dataStr) IN
    IF ~parsed.ok THEN [ d EXCEPT !.done = TRUE ]
    ELSE [ d EXCEPT !.calls = d.calls
                        \o (IF parsed.reasoning # << >>
                            THEN << Call("onReasoningChunk", parsed.reasoning) >>
                            ELSE << >>)
                        \o (IF parsed.content # << >>
                            THEN << Call("onChunk", parsed.content) >>
                            ELSE << >>),
                    !.finalUsage = IF parsed.usage # << >> THEN parsed.usage
                                   ELSE d.finalUsage ]

\* A faulty dispatch that keeps the first usage object it sees.
DispatchEventFirstUsage(d, dataStr) ==
    LET parsed == JSONparse(dataStr) IN
    IF ~parsed.ok THEN d
    ELSE [ d EXCEPT !.calls = d.calls
                        \o (IF parsed.reasoning # << >>
                            THEN << Call("onReasoningChunk", parsed.reasoning) >>
                            ELSE << >>)
                        \o (IF parsed.content # << >>
                            THEN << Call("onChunk", parsed.content) >>
                            ELSE << >>),
                    !.finalUsage = IF parsed.usage # << >> /\ d.finalUsage = << >>
                                   THEN parsed.usage
                                   ELSE d.finalUsage ]

\* The try block of a dispatched event that is not [DONE]: JSON.parse, then
\* onReasoningChunk, onChunk and finalUsage; a parse error is swallowed.
DispatchEvent(d, dataStr) ==
    LET parsed == JSONparse(dataStr) IN
    IF ~parsed.ok THEN d
    ELSE [ d EXCEPT !.calls = d.calls
                        \o (IF parsed.reasoning # << >>
                            THEN << Call("onReasoningChunk", parsed.reasoning) >>
                            ELSE << >>)
                        \o (IF parsed.content # << >>
                            THEN << Call("onChunk", parsed.content) >>
                            ELSE << >>),
                    !.finalUsage = IF parsed.usage # << >> THEN parsed.usage
                                   ELSE d.finalUsage ]

\* A faulty remainder: what is left of the buffer after its last complete line
\* is thrown away.
RemainderDropped(buffer, start) == << >>

\* buffer.slice(start): what is left of the buffer after its last complete line.
Remainder(buffer, start) == SubSeq(buffer, start + 1, Len(buffer))

\* A faulty terminator test that recognizes nothing.
isDoneNever(dataStr) == FALSE

\* dataStr === '[DONE]'
isDone(dataStr) == dataStr = DoneText

\* The locals of the read loop as declared before it, with the log of the
\* callbacks invoked so far.
NewLoop(log) ==
    [ buffer |-> << >>, eventDataParts |-> << >>, done |-> FALSE,
      finalUsage |-> << >>, calls |-> log, dispatched |-> << >>,
      resets |-> 0, lines |-> << >> ]

\* resetInactivity() in the read loop, counted.
resetInactivity(d) ==
    [ d EXCEPT !.resets = @ + 1 ]

\* History: the line just processed is logged with the loop's state after it
\* (eventDataParts, the numbers of payloads dispatched, of callbacks invoked
\* and of resetInactivity calls).
Logged(d, line) ==
    [ d EXCEPT !.lines = Append(@, [ line |-> line,
                                     parts |-> d.eventDataParts,
                                     dispatched |-> Len(d.dispatched),
                                     calls |-> Len(d.calls),
                                     resets |-> d.resets ]) ]

\* A faulty test that takes no line for a comment.
isCommentNever(line) == FALSE

\* line.startsWith(':')
isComment(line) == startsWith(line, << ":" >>)

\* A faulty field value that keeps the space after the colon.
FieldValueKeepsSpace(line) ==
    SubSeq(line, 6, Len(line))

\* line.startsWith('data: ') ? line.slice(6) : line.slice(5)
FieldValue(line) ==
    IF startsWith(line, DataField \o << " " >>)
    THEN SubSeq(line, 7, Len(line))
    ELSE SubSeq(line, 6, Len(line))

\* The `for (;;)` over the complete lines of the buffer, from the line that
\* starts after the first `start` characters. d holds the loop's locals, the
\* log of the callbacks invoked and the payloads dispatched.
RECURSIVE ProcessLines(_, _)
ProcessLines(d, start) ==
    LET nl == indexOf(d.buffer, start) IN
    IF nl = 0
    THEN [ d EXCEPT !.buffer = Remainder(d.buffer, start) ]
    ELSE LET raw == SubSeq(d.buffer, start + 1, nl - 1)
             line == IF raw # << >> /\ raw[Len(raw)] = CR
                     THEN SubSeq(raw, 1, Len(raw) - 1)
                     ELSE raw
         IN  IF line = << >>
             THEN IF d.eventDataParts # << >>
                  THEN LET dataStr == join(d.eventDataParts)
                           e == [ d EXCEPT !.eventDataParts = << >>,
                                           !.dispatched = Append(@, dataStr) ]
                       IN  IF isDone(dataStr)
                           THEN Logged([ e EXCEPT !.done = TRUE ], line)
                           ELSE ProcessLines(
                                   Logged(resetInactivity(DispatchEvent(e, dataStr)),
                                          line), nl)
                  ELSE ProcessLines(Logged(resetInactivity(d), line), nl)
             ELSE IF isComment(line)
             THEN ProcessLines(Logged(resetInactivity(d), line), nl)
             ELSE IF startsWith(line, DataField)
             THEN ProcessLines(
                     Logged([ resetInactivity(d) EXCEPT
                                !.eventDataParts = Append(@, FieldValue(line)) ],
                            line), nl)
             ELSE ProcessLines(Logged(d, line), nl)

\* One pass of the while loop with a value: the bytes are appended to the
\* buffer and its complete lines processed.
ReadValue(d, value) ==
    ProcessLines([ d EXCEPT !.buffer = d.buffer \o value ], 0)

\* A faulty end that first treats what is left in the buffer as the last line
\* of an event.
AfterLoopFlushes(d) ==
    LET f == ProcessLines([ d EXCEPT !.buffer = d.buffer \o << LF, LF >> ], 0)
    IN  f.calls
          \o (IF f.finalUsage # << >> THEN << Call("onUsage", f.finalUsage) >> ELSE << >>)
          \o << Call("onComplete", << >>) >>

\* A faulty end that first dispatches the data lines still buffered.
AfterLoopDispatches(d) ==
    LET f == IF d.eventDataParts = << >> THEN d
             ELSE DispatchEvent(d, join(d.eventDataParts))
    IN  f.calls
          \o (IF f.finalUsage # << >> THEN << Call("onUsage", f.finalUsage) >> ELSE << >>)
          \o << Call("onComplete", << >>) >>

\* After the loop and its finally block: onUsage with the snapshot kept, if
\* any, then onComplete.
AfterLoop(d) ==
    d.calls
      \o (IF d.finalUsage # << >> THEN << Call("onUsage", d.finalUsage) >> ELSE << >>)
      \o << Call("onComplete", << >>) >>

\* ---------------------------------------------------------------- request builder

\* const MAX_CACHE_BREAKPOINTS = 4
MAX_CACHE_BREAKPOINTS == 4

\* A text is written as a run of one character, [ ch, length ]: the builder
\* reads nothing of a text but its length. 16380 characters estimate to 4095
\* tokens, 16381 and 16384 to 4096.
\* An estimate that rounds down.
estimateTokensFloor(text) ==
    text.length \div 4

\* Math.ceil(text.length / 4)
estimateTokens(text) ==
    (text.length + 3) \div 4

UpperCase == << "A", "B", "C", "D", "E", "F", "G", "H", "I", "J", "K", "L", "M", "N", "O", "P", "Q", "R", "S", "T", "U", "V", "W", "X", "Y", "Z" >>
LowerCase == << "a", "b", "c", "d", "e", "f", "g", "h", "i", "j", "k", "l", "m", "n", "o", "p", "q", "r", "s", "t", "u", "v", "w", "x", "y", "z" >>

\* str.toLowerCase()
toLowerCase(str) ==
    [ i \in 1 .. Len(str) |->
        IF \E k \in 1 .. Len(UpperCase) : UpperCase[k] = str[i]
        THEN LowerCase[CHOOSE k \in 1 .. Len(UpperCase) : UpperCase[k] = str[i]]
        ELSE str[i] ]

\* str.includes(sub)
includes(str, sub) ==
    \E i \in 0 .. Len(str) - Len(sub) : SubSeq(str, i + 1, i + Len(sub)) = sub

\* /^o\d/.test(str)
StartsWithODigit(str) ==
    /\ Len(str) >= 2
    /\ str[1] = "o"
    /\ str[2] \in { "0", "1", "2", "3", "4", "5", "6", "7", "8", "9" }

\* detectModelFamily: the tests in the order of the code, on the lower-cased name.
detectModelFamily(model) ==
    LET m == toLowerCase(model)
    IN  IF includes(m, << "c", "l", "a", "u", "d", "e" >>) \/ startsWith(m, << "a", "n", "t", "h", "r", "o", "p", "i", "c", "/" >>)
          THEN "anthropic"
        ELSE IF includes(m, << "g", "e", "m", "i", "n", "i" >>) \/ startsWith(m, << "g", "o", "o", "g", "l", "e", "/" >>)
          THEN "gemini"
        ELSE IF \/ includes(m, << "g", "p", "t" >>)
                \/ startsWith(m, << "o", "p", "e", "n", "a", "i", "/" >>)
                \/ StartsWithODigit(m)
          THEN "openai"
        ELSE IF includes(m, << "g", "r", "o", "k" >>) \/ startsWith(m, << "x", "-", "a", "i", "/" >>)
          THEN "grok"
        ELSE IF includes(m, << "d", "e", "e", "p", "s", "e", "e", "k" >>)
          THEN "deepseek"
        ELSE "other"

\* getCacheTokenThreshold: 4096 for the two families, Number.POSITIVE_INFINITY
\* (no finite value) for the others.
getCacheTokenThreshold(model) ==
    IF detectModelFamily(model) \in { "anthropic", "gemini" }
    THEN [ finite |-> TRUE, value |-> 4096 ]
    ELSE [ finite |-> FALSE, value |-> 0 ]

\* estimate >= threshold
AtLeast(estimate, threshold) ==
    threshold.finite /\ estimate >= threshold.value

\* A test that knows one family only.
shouldInsertCacheControlAnthropicOnly(model) ==
    detectModelFamily(model) = "anthropic"

\* shouldInsertCacheControl
shouldInsertCacheControl(model) ==
    detectModelFamily(model) \in { "anthropic", "gemini" }

\* A text part and an image part of a multipart content.
TextPart(text) == [ type |-> "text", text |-> text ]

ImagePart == [ type |-> "image_url", image_url |-> "i" ]

\* { type: "text", text, cache_control: { type: "ephemeral" } }
Ephemeral(text) ==
    [ type |-> "text", text |-> text, cache_control |-> [ type |-> "ephemeral" ] ]

\* A message whose content is a string, and one whose content is an array of parts.
StringMessage(text) ==
    [ role |-> "user", content |-> [ type |-> "string", text |-> text ] ]

PartsMessage(parts) ==
    [ role |-> "user", content |-> [ type |-> "array", parts |-> parts ] ]

\* The loop run from the first part on: the first text part at or above the
\* threshold; 0 when none.
FirstLargePart(parts, threshold) ==
    LET large == { i \in 1 .. Len(parts) :
                     /\ parts[i].type = "text"
                     /\ AtLeast(estimateTokens(parts[i].text), threshold) }
    IN  IF large = {} THEN 0
        ELSE CHOOSE i \in large : \A j \in large : i <= j

\* The `for (let i = parts.length - 1; i >= 0; i--)` loop: the index of the part
\* it annotates, the last text part at or above the threshold; 0 when none.
LastLargePart(parts, threshold) ==
    LET large == { i \in 1 .. Len(parts) :
                     /\ parts[i].type = "text"
                     /\ AtLeast(estimateTokens(parts[i].text), threshold) }
    IN  IF large = {} THEN 0
        ELSE CHOOSE i \in large : \A j \in large : j <= i

\* The callback of messages.map for message m with `remaining` breakpoints
\* left: the message it returns and the breakpoints left after it.
MapMessage(m, remaining, threshold) ==
    IF remaining <= 0 THEN [ message |-> m, remaining |-> remaining ]
    ELSE IF m.content.type = "array"
      THEN LET i == LastLargePart(m.content.parts, threshold)
           IN  IF i = 0 THEN [ message |-> m, remaining |-> remaining ]
               ELSE [ message |->
                        PartsMessage([ m.content.parts EXCEPT
                                         ![i] = Ephemeral(m.content.parts[i].text) ]),
                      remaining |-> remaining - 1 ]
    ELSE IF AtLeast(estimateTokens(m.content.text), threshold)
      THEN [ message |-> PartsMessage(<< Ephemeral(m.content.text) >>),
             remaining |-> remaining - 1 ]
    ELSE [ message |-> m, remaining |-> remaining ]

\* messages.map from message i on.
RECURSIVE MapFrom(_, _, _, _)
MapFrom(messages, i, remaining, threshold) ==
    IF i > Len(messages) THEN << >>
    ELSE LET r == MapMessage(messages[i], remaining, threshold)
         IN  << r.message >> \o MapFrom(messages, i + 1, r.remaining, threshold)

\* The caller's message m after the map callback has run on it, had the
\* callback annotated the parts of m.content themselves.
CallerMessageAnnotatedInPlace(m, remaining, threshold) ==
    IF m.content.type = "array" THEN MapMessage(m, remaining, threshold).message
    ELSE m

\* The caller's message m after the map callback has run on it: the callback
\* writes cache_control to a copy of a part (`parts = m.content.map(p => ({...p}))`)
\* and returns a new message object (`{ ...m, content: parts }`), so no member
\* of m or of its parts is assigned.
CallerMessageAfter(m, remaining, threshold) ==
    m

\* The caller's messages from message i on after messages.map has run.
RECURSIVE CallerFrom(_, _, _, _)
CallerFrom(messages, i, remaining, threshold) ==
    IF i > Len(messages) THEN << >>
    ELSE LET r == MapMessage(messages[i], remaining, threshold)
         IN  << CallerMessageAfter(messages[i], remaining, threshold) >>
                \o CallerFrom(messages, i + 1, r.remaining, threshold)

\* The caller's message list after transformMessagesForCaching(messages, model)
\* has returned.
CallerMessagesAfter(messages, model) ==
    IF ~ shouldInsertCacheControl(model) THEN messages
    ELSE CallerFrom(messages, 1, MAX_CACHE_BREAKPOINTS, getCacheTokenThreshold(model))

\* transformMessagesForCaching
transformMessagesForCaching(messages, model) ==
    IF ~ shouldInsertCacheControl(model) THEN messages
    ELSE MapFrom(messages, 1, MAX_CACHE_BREAKPOINTS, getCacheTokenThreshold(model))

\* options.model || "x-ai/grok-4"
modelToUse(model) ==
    IF model = << >> THEN << "x", "-", "a", "i", "/", "g", "r", "o", "k", "-", "4" >> ELSE model

\* The model names a request may carry; the empty one stands for no
\* options.model.
Models ==
    { << >>,
      << "a", "n", "t", "h", "r", "o", "p", "i", "c", "/", "c", "l", "a", "u", "d", "e", "-", "3" >>,
      << "G", "e", "m", "i", "n", "i", "-", "P", "r", "o" >>,
      << "g", "o", "o", "g", "l", "e", "/", "g", "e", "m", "m", "a" >>,
      << "o", "p", "e", "n", "a", "i", "/", "g", "p", "t", "-", "4", "o" >>,
      << "o", "3" >>,
      << "x", "-", "a", "i", "/", "g", "r", "o", "k", "-", "4" >>,
      << "d", "e", "e", "p", "s", "e", "e", "k", "-", "r", "1" >>,
      << "m", "i", "s", "t", "r", "a", "l" >> }

\* Most messages of a request.
MaxMessages == 5

\* The messages a request is made of: a string below the threshold, strings at
\* and above it, an image with a text at the threshold, two texts above it,
\* and a text below it with an image.
Messages ==
    { StringMessage([ ch |-> "s", length |-> 16380 ]),
      StringMessage([ ch |-> "a", length |-> 16381 ]),
      PartsMessage(<< ImagePart, TextPart([ ch |-> "a", length |-> 16381 ]) >>),
      PartsMessage(<< TextPart([ ch |-> "a", length |-> 16381 ]),
                      TextPart([ ch |-> "b", length |-> 16384 ]), ImagePart >>),
      PartsMessage(<< TextPart([ ch |-> "s", length |-> 16380 ]), ImagePart >>) }

\* The message lists prepareApiMessages may hand to streamResponse.
Requests ==
    UNION { [ 1 .. k -> Messages ] : k \in 0 .. MaxMessages }

\* ---------------------------------------------------------------- state

VARIABLES
    pc,           \* where the streamResponse call is suspended
    retries,      \* let retries = 0
    aborted,      \* let aborted = false (set by the watchdog callback only)
    requests,     \* number of fetch calls issued; the current attempt's index
    timers,       \* attempts whose inactivityTimer is pending
    ctrlAborted,  \* attempts whose AbortController has been aborted
    httpStatus,   \* status of the non-ok response being classified
    httpBody,     \* the body of that response
    webSearchActive, \* handleSendMessage's webSearchActive, for the current call
    plugins,      \* whether the requests of the current call carry options.plugins
    sends,        \* number of handleSendMessage invocations
    firstRequest, \* number of requests issued before the current call began
    ui,           \* the chat context's streaming state (refs and React state)
    delivered,    \* history: the chunks the current call passed to onChunk, concatenated
    attemptText,  \* history: the chunks passed to onChunk by the current attempt
    nReasoning,   \* history: number of onReasoningChunk invocations of the current call
    completes,    \* history: number of onComplete invocations of the current call
    errs,         \* history: the errors passed to onError, in order
    outcomes,     \* history: how each finished attempt of the current call ended
    cancelledAt,  \* history: chunks passed to onChunk before the first cancel, or -1
    events,       \* number of delta events the server has sent so far
    body,         \* the bytes of the response body whose decoding is followed
    consumed,     \* how many of them reader.read() has handed out
    loop,         \* the read loop's locals, callback log and payloads dispatched
    reading,      \* "off", "reading" or "returned": where that read loop is
    cuts,         \* history: the kinds of places where a read ended
    model,        \* options.model of the request whose building is followed
    apiMessages,  \* the messages handed to streamResponse for that request
    cachedMessages, \* the messages of the request body built from them
    building      \* "off", "ready" or "built": where that building is

vars == << pc, retries, aborted, requests, timers, ctrlAborted, httpStatus,
           httpBody, webSearchActive, plugins, sends, firstRequest, ui,
           delivered, attemptText, nReasoning, completes, errs, outcomes,
           cancelledAt, events, body, consumed, loop, reading, cuts,
           model, apiMessages, cachedMessages, building >>

\* cancelCurrentStream has been invoked.
cancelled == cancelledAt >= 0

sessionVars == << pc, retries, aborted, requests, timers, ctrlAborted, httpStatus,
                  httpBody >>

sendVars == << webSearchActive, plugins, sends, firstRequest >>

historyVars == << delivered, attemptText, nReasoning, completes, errs, outcomes,
                  events >>

decoderVars == << body, consumed, loop, reading, cuts >>

builderVars == << model, apiMessages, cachedMessages, building >>

\* ---------------------------------------------------------------- aggregator

\* streamingMessage === null
NoStreamingMessage ==
    [ present |-> FALSE, content |-> << >>, reasoning |-> << >>,
      reasoningVisible |-> FALSE ]

\* cancelAnimationFrame(rafIdRef.current), under `rafIdRef.current !== null`:
\* the number of frame callbacks still pending afterwards.
cancelAnimationFrame(s) ==
    IF s.rafIdRef /\ s.frames > 0 THEN s.frames - 1 ELSE s.frames

\* A faulty flush that adds the buffer to what the placeholder shows.
flushStreamingAppends(s) ==
    [ s EXCEPT !.rafIdRef = FALSE,
               !.frames = s.frames - 1,
               !.streamingMessage =
                   IF s.streamingMessage.present
                   THEN [ s.streamingMessage EXCEPT
                            !.content = @ \o s.streamingContentRef ]
                   ELSE s.streamingMessage ]

\* flushStreaming, run as the callback of a requested frame:
\* rafIdRef.current = null; the placeholder takes the buffer.
flushStreaming(s) ==
    [ s EXCEPT !.rafIdRef = FALSE,
               !.frames = s.frames - 1,
               !.streamingMessage =
                   IF s.streamingMessage.present
                   THEN [ s.streamingMessage EXCEPT !.content = s.streamingContentRef ]
                   ELSE s.streamingMessage ]

\* A faulty scheduleFlush that requests a frame on every call.
scheduleFlushAlways(s) ==
    [ s EXCEPT !.rafIdRef = TRUE, !.frames = s.frames + 1 ]

\* scheduleFlush: a no-op while rafIdRef holds a frame id, otherwise
\* rafIdRef.current = requestAnimationFrame(flushStreaming).
scheduleFlush(s) ==
    IF s.rafIdRef THEN s
    ELSE [ s EXCEPT !.rafIdRef = TRUE, !.frames = s.frames + 1 ]

\* A faulty onChunk that takes the assignment branch: the buffer is replaced.
onChunkOverwrite(s, chunk) ==
    IF s.streamCompletedRef THEN s
    ELSE scheduleFlush(
           [ s EXCEPT !.streamingMessage =
                          IF s.streamingMessage.present
                          THEN [ s.streamingMessage EXCEPT !.reasoningVisible = FALSE ]
                          ELSE s.streamingMessage,
                      !.streamingContentRef = chunk ])

\* A faulty onChunk without the test of streamCompletedRef.
onChunkUnguarded(s, chunk) ==
    scheduleFlush(
      [ s EXCEPT !.streamingMessage =
                     IF s.streamingMessage.present
                     THEN [ s.streamingMessage EXCEPT !.reasoningVisible = FALSE ]
                     ELSE s.streamingMessage,
                 !.streamingContentRef = s.streamingContentRef \o chunk ])

\* beginStreaming's onChunk callback.
onChunk(s, chunk) ==
    IF s.streamCompletedRef THEN s
    ELSE scheduleFlush(
           [ s EXCEPT !.streamingMessage =
                          IF s.streamingMessage.present
                          THEN [ s.streamingMessage EXCEPT !.reasoningVisible = FALSE ]
                          ELSE s.streamingMessage,
                      !.streamingContentRef = s.streamingContentRef \o chunk ])

\* A faulty onReasoningChunk that leaves the placeholder to the next flush.
onReasoningChunkDeferred(s, chunk) ==
    IF s.streamCompletedRef THEN s
    ELSE scheduleFlush([ s EXCEPT !.reasoningContentRef = @ \o chunk ])

\* beginStreaming's onReasoningChunk callback.
onReasoningChunk(s, chunk) ==
    IF s.streamCompletedRef THEN s
    ELSE LET r == s.reasoningContentRef \o chunk IN
         [ s EXCEPT !.reasoningContentRef = r,
                    !.streamingMessage =
                        IF s.streamingMessage.present
                        THEN [ s.streamingMessage EXCEPT !.reasoning = r,
                                                         !.reasoningVisible = TRUE ]
                        ELSE s.streamingMessage ]

\* A faulty onController that keeps the first handle it was given.
onControllerKeepsFirst(s, controller) ==
    IF s.streamControllerRef # 0 THEN s
    ELSE [ s EXCEPT !.streamControllerRef = controller ]

\* beginStreaming's onController callback.
onController(s, controller) ==
    [ s EXCEPT !.streamControllerRef = controller ]

\* beginStreaming's onComplete callback (up to the deferred save).
onComplete(s) ==
    IF s.streamCompletedRef THEN s
    ELSE [ s EXCEPT !.streamCompletedRef = TRUE,
                    !.rafIdRef = FALSE,
                    !.frames = cancelAnimationFrame(s),
                    !.streamingMessage = NoStreamingMessage,
                    !.isProcessing = FALSE,
                    !.streamingContentRef = << >>,
                    !.messages = Append(s.messages,
                                        [ role |-> "assistant",
                                          content |-> s.streamingContentRef,
                                          reasoning |-> s.reasoningContentRef ]),
                    !.stored = Append(s.messages,
                                      [ role |-> "assistant",
                                        content |-> s.streamingContentRef,
                                        reasoning |-> s.reasoningContentRef ]),
                    !.saveTimers = s.saveTimers + 1,
                    !.streamControllerRef = 0 ]

\* A faulty onError that leaves streamCompletedRef unset.
onErrorLeavesOpen(s) ==
    [ s EXCEPT !.rafIdRef = FALSE,
               !.frames = cancelAnimationFrame(s),
               !.isProcessing = FALSE,
               !.streamingMessage = NoStreamingMessage,
               !.streamControllerRef = 0,
               !.toasts = s.toasts + 1 ]

\* beginStreaming's onError callback when the error is not answered by a
\* re-send: the in-flight state is cleared, then the caller's onError or the
\* default branch shows the error toast.
onError(s) ==
    [ s EXCEPT !.rafIdRef = FALSE,
               !.frames = cancelAnimationFrame(s),
               !.isProcessing = FALSE,
               !.streamingMessage = NoStreamingMessage,
               !.streamCompletedRef = TRUE,
               !.streamControllerRef = 0,
               !.toasts = s.toasts + 1 ]

\* beginStreaming's onError callback up to the re-send, when handleSendMessage's
\* onError answers a plugin error: the in-flight state is cleared, a notice is
\* shown in place of the error toast, and the last message is removed.
onErrorPlugin(s) ==
    [ s EXCEPT !.rafIdRef = FALSE,
               !.frames = cancelAnimationFrame(s),
               !.isProcessing = FALSE,
               !.streamingMessage = NoStreamingMessage,
               !.streamCompletedRef = TRUE,
               !.streamControllerRef = 0,
               !.messages = SubSeq(s.messages, 1, Len(s.messages) - 1),
               !.stored = SubSeq(s.messages, 1, Len(s.messages) - 1) ]

\* The message handleSendMessage builds from the user's input.
UserMessage == [ role |-> "user", content |-> << "q" >>, reasoning |-> << >> ]

\* handleSendMessage up to beginStreaming: the user's message is appended and
\* isProcessing set.
handleSendMessage(s) ==
    [ s EXCEPT !.messages = Append(s.messages, UserMessage),
               !.stored = Append(s.messages, UserMessage),
               !.closureMessages = s.messages,
               !.isProcessing = TRUE ]

\* The number of messages the chat holds before the turn that is followed: an
\* existing chat, past its welcome message.
PriorMessages == 2

\* saveCurrentChat as the deferred save of onComplete calls it, for a chat
\* that has an id: the function of the render in which the stream was
\* started, whose `messages` is that render's list. It writes the snapshot of
\* the chat in savedChats and the stored message list.
saveCurrentChat(s) ==
    IF PriorMessages + Len(s.closureMessages) <= 1 THEN s
    ELSE [ s EXCEPT !.snapshot = s.closureMessages,
                    !.stored = s.closureMessages ]

\* cancelCurrentStream, without the abort of the controller it holds.
cancelCurrentStream(s) ==
    [ s EXCEPT !.streamControllerRef = 0,
               !.isProcessing = FALSE,
               !.streamingMessage = NoStreamingMessage,
               !.streamCompletedRef = TRUE ]

\* resetStuckState: the fallback that clears a processing flag and a placeholder
\* still set when its timer runs.
resetStuckState(s) ==
    [ s EXCEPT !.isProcessing = FALSE,
               !.streamingMessage = NoStreamingMessage ]

\* The chat context after construction. The message lists (messages in
\* memory, closureMessages as seen by the callbacks of the stream, stored under
\* STORAGE_KEYS.MESSAGES, snapshot in savedChats) are relative to the chat
\* before the turn; saveTimers counts the pending deferred saves and saves
\* those that have run.
InitialUi ==
    [ streamingContentRef |-> << >>,
      reasoningContentRef |-> << >>,
      streamCompletedRef  |-> FALSE,
      streamControllerRef |-> 0,
      rafIdRef            |-> FALSE,
      frames              |-> 0,
      streamingMessage    |-> NoStreamingMessage,
      isProcessing        |-> FALSE,
      messages            |-> << >>,
      toasts              |-> 0,
      closureMessages     |-> << >>,
      stored              |-> << >>,
      snapshot            |-> << >>,
      saveTimers          |-> 0,
      saves               |-> 0 ]

\* beginStreaming up to the call of streamResponse, after setIsProcessing(true).
beginStreaming(s) ==
    [ s EXCEPT !.isProcessing = TRUE,
               !.streamingMessage = [ present |-> TRUE, content |-> << >>,
                                      reasoning |-> << >>, reasoningVisible |-> FALSE ],
               !.streamingContentRef = << >>,
               !.streamCompletedRef = FALSE,
               !.reasoningContentRef = << >> ]

\* ---------------------------------------------------------------- session

InitSession ==
    /\ pc = "idle"
    /\ retries = 0
    /\ aborted = FALSE
    /\ requests = 0
    /\ timers = {}
    /\ ctrlAborted = {}
    /\ httpStatus = 0
    /\ httpBody = NoBody
    /\ webSearchActive = FALSE
    /\ plugins = FALSE
    /\ sends = 0
    /\ firstRequest = 0
    /\ ui = InitialUi
    /\ delivered = << >>
    /\ attemptText = << >>
    /\ nReasoning = 0
    /\ completes = 0
    /\ errs = << >>
    /\ outcomes = << >>
    /\ cancelledAt = -1
    /\ events = 0

\* No request's building is followed.
NoRequestBuilt ==
    /\ model = << >>
    /\ apiMessages = << >>
    /\ cachedMessages = << >>
    /\ building = "off"

\* One call of streamResponse; no response body is followed byte by byte.
Init ==
    /\ InitSession
    /\ NoRequestBuilt
    /\ body = << >>
    /\ consumed = 0
    /\ loop = NewLoop(<< >>)
    /\ reading = "off"
    /\ cuts = {}

\* One iteration of `while (retries <= MAX_RETRIES && !aborted)` up to the await
\* of fetch: a new controller is handed out, the watchdog armed, the request sent.
\* r and a are the values of retries and aborted when the loop test runs, s the
\* chat context and tm the pending timers then. When the test fails the call
\* returns.
LoopIteration(r, a, s, tm) ==
    IF r <= MAX_RETRIES /\ ~a
    THEN /\ requests' = requests + 1
         /\ ui' = onController(s, requests + 1)
         /\ timers' = tm \cup { requests + 1 }
         /\ attemptText' = << >>
         /\ pc' = "fetching"
    ELSE /\ pc' = "returned"
         /\ ui' = s
         /\ timers' = tm
         /\ UNCHANGED << requests, attemptText >>

\* A faulty re-send that keeps the plugins and the web search setting.
ResendWithPlugins(tm) ==
    /\ LoopIteration(0, FALSE,
                     beginStreaming(handleSendMessage(onErrorPlugin(ui))), tm)
    /\ retries' = 0
    /\ aborted' = FALSE
    /\ delivered' = << >>
    /\ nReasoning' = 0
    /\ completes' = 0
    /\ outcomes' = << >>
    /\ sends' = sends + 1
    /\ firstRequest' = requests
    /\ UNCHANGED << webSearchActive, plugins >>

\* handleSendMessage's onError on a plugin error of a send with web search:
\* the last message is removed and handleSendMessage invoked again with
\* forceWebSearch = false, which runs a new streamResponse call, without
\* plugins, up to its first await. tm is the set of pending timers.
Resend(tm) ==
    /\ LoopIteration(0, FALSE,
                     beginStreaming(handleSendMessage(onErrorPlugin(ui))), tm)
    /\ retries' = 0
    /\ aborted' = FALSE
    /\ delivered' = << >>
    /\ nReasoning' = 0
    /\ completes' = 0
    /\ outcomes' = << >>
    /\ webSearchActive' = FALSE
    /\ plugins' = FALSE
    /\ sends' = sends + 1
    /\ firstRequest' = requests

\* `catch (err)`: silent after a watchdog abort, terminal when the budget is
\* used up, otherwise one more retry after the backoff delay. The terminal
\* onError reaches handleSendMessage's onError, which answers a plugin error
\* of a send with web search by a re-send. tm is the set of pending timers
\* after the try statement.
CatchBlock(err, tm) ==
    IF aborted
    THEN /\ pc' = "returned"
         /\ timers' = tm
         /\ outcomes' = Append(outcomes, err)
         /\ UNCHANGED << retries, ui, errs, aborted, requests, attemptText,
                         sendVars, delivered, nReasoning, completes >>
    ELSE IF retries >= MAX_RETRIES
    THEN /\ errs' = Append(errs, err)
         /\ IF webSearchActive /\ err = "plugin"
            THEN Resend(tm)
            ELSE /\ pc' = "returned"
                 /\ ui' = onError(ui)
                 /\ timers' = tm
                 /\ outcomes' = Append(outcomes, err)
                 /\ UNCHANGED << retries, aborted, requests, attemptText,
                                 sendVars, delivered, nReasoning, completes >>
    ELSE /\ retries' = retries + 1
         /\ pc' = "backoff"
         /\ timers' = tm
         /\ outcomes' = Append(outcomes, err)
         /\ UNCHANGED << ui, errs, aborted, requests, attemptText, sendVars,
                         delivered, nReasoning, completes >>

\* The API keys the provider may hold: none, or one.
ApiKeys == { << >>, << "k" >> }

\* prepareApiKey(apiKey) throws: no key outside proxy mode. (The key it
\* returns otherwise goes into the Authorization header only.)
prepareApiKeyThrows(apiKey, USE_PROXY) ==
    ~USE_PROXY /\ apiKey = << >>

\* `catch (error)` of beginStreaming: streamResponse has rejected.
beginStreamingCatch(s) ==
    [ s EXCEPT !.isProcessing = FALSE,
               !.toasts = s.toasts + 1 ]

\* A stream is started without web search, as regenerateMessage does:
\* setIsProcessing(true), beginStreaming, and streamResponse up to its first
\* await. The message list holds what is appended from here on.
StartStream ==
    /\ UNCHANGED << decoderVars, builderVars >>
    /\ pc = "idle"
    /\ \E apiKey \in ApiKeys, USE_PROXY \in BOOLEAN :
          ~prepareApiKeyThrows(apiKey, USE_PROXY)
    /\ LoopIteration(retries, aborted, beginStreaming(ui), timers)
    /\ UNCHANGED << retries, aborted, ctrlAborted, httpStatus, httpBody,
                    sendVars, delivered, nReasoning, completes, errs, outcomes,
                    cancelledAt, events >>

\* A stream is started as regenerateMessage does, without an API key outside
\* proxy mode: setIsProcessing(true), beginStreaming creates the placeholder,
\* prepareApiKey throws in the first statement of streamResponse, before any
\* callback, and the rejection is caught by beginStreaming's catch block.
StartStreamRejected ==
    /\ UNCHANGED << decoderVars, builderVars >>
    /\ pc = "idle"
    /\ \E apiKey \in ApiKeys, USE_PROXY \in BOOLEAN :
          prepareApiKeyThrows(apiKey, USE_PROXY)
    /\ ui' = beginStreamingCatch(beginStreaming(ui))
    /\ pc' = "returned"
    /\ UNCHANGED << retries, aborted, requests, timers, ctrlAborted, httpStatus,
                    httpBody, sendVars, historyVars, cancelledAt >>

\* The user sends a message with web search enabled: handleSendMessage appends
\* the message, and beginStreaming and streamResponse run up to the first
\* await, the requests carrying the web plugin.
SendMessage ==
    /\ UNCHANGED << decoderVars, builderVars >>
    /\ pc = "idle"
    /\ LoopIteration(retries, aborted, beginStreaming(handleSendMessage(ui)),
                     timers)
    /\ webSearchActive' = TRUE
    /\ plugins' = TRUE
    /\ sends' = sends + 1
    /\ firstRequest' = requests
    /\ UNCHANGED << retries, aborted, ctrlAborted, httpStatus, httpBody,
                    delivered, nReasoning, completes, errs, outcomes,
                    cancelledAt, events >>

\* `Error: ${response.status} ${response.statusText}`
StatusMessage(status) ==
    "Error: " \o ToString(status)

\* A classification that lets the body's message override the status.
handleApiErrorBodyFirst(status, txt) ==
    IF txt.json /\ txt.hasMessage /\ txt.message # "" THEN txt.message
    ELSE IF status = 401 THEN "auth"
    ELSE IF status = 429 THEN "rate"
    ELSE StatusMessage(status)

\* handleApiError: the message of the error a non-ok response with body txt is
\* turned into; "auth" and "rate" stand for the two fixed messages.
\* `data?.error?.message || msg` keeps msg for an absent and for an empty
\* message.
handleApiError(status, txt) ==
    LET msg == IF txt.json /\ txt.hasMessage /\ txt.message # ""
               THEN txt.message
               ELSE StatusMessage(status)
    IN  IF status = 401 THEN "auth"
        ELSE IF status = 429 THEN "rate"
        ELSE msg

\* The error a rejected fetch or read carries: an AbortError when the attempt's
\* controller was aborted, a network error otherwise.
RejectionOf(attempt) ==
    IF attempt \in ctrlAborted THEN "abort" ELSE "network"

\* `await fetch(...)` resolves with a response: the timer armed before the
\* fetch is cleared; the call returns if a watchdog fired meanwhile, classifies
\* a non-ok response, and otherwise starts reading the body.
FetchResolves ==
    /\ UNCHANGED << decoderVars, builderVars >>
    /\ pc = "fetching"
    /\ requests \notin ctrlAborted
    /\ \E status \in { 200 } \cup ErrorStatuses, txt \in ErrorBodies :
          /\ timers' = timers \ { requests }
          /\ IF aborted
             THEN /\ pc' = "returned"
                  /\ UNCHANGED << httpStatus, httpBody >>
             ELSE IF status = 200
             THEN /\ pc' = "reading"
                  /\ UNCHANGED << httpStatus, httpBody >>
             ELSE /\ pc' = "errbody"
                  /\ httpStatus' = status
                  /\ httpBody' = txt
    /\ UNCHANGED << retries, aborted, requests, ctrlAborted, sendVars, ui, delivered,
                    attemptText, nReasoning, completes, errs, outcomes,
                    cancelledAt, events >>

\* `await fetch(...)` rejects: control goes to the catch block; the timer armed
\* before the fetch is not cleared on this path.
FetchRejects ==
    /\ UNCHANGED << decoderVars, builderVars >>
    /\ pc = "fetching"
    /\ CatchBlock(RejectionOf(requests), timers)
    /\ UNCHANGED << ctrlAborted, httpStatus, httpBody, cancelledAt, events >>

\* `await handleApiError(res)` reads the body and throws the classified error;
\* the response is out of scope in the catch block.
ErrorResponse ==
    /\ UNCHANGED << decoderVars, builderVars >>
    /\ pc = "errbody"
    /\ CatchBlock(handleApiError(httpStatus, httpBody), timers)
    /\ httpStatus' = 0
    /\ httpBody' = NoBody
    /\ UNCHANGED << ctrlAborted, cancelledAt, events >>

\* The end of the read loop: the finally block (abort the controller, clear the
\* timer), then onComplete and return. s is the chat context at that point.
Finalize(s) ==
    /\ ctrlAborted' = ctrlAborted \cup { requests }
    /\ timers' = timers \ { requests }
    /\ ui' = onComplete(s)
    /\ completes' = completes + 1
    /\ outcomes' = Append(outcomes, "complete")
    /\ pc' = "returned"

\* After the lines of one read: resetInactivity has run, and the loop test
\* `while (!done && !aborted)` decides between the next read and the end.
AfterLines(s) ==
    IF aborted
    THEN Finalize(s)
    ELSE /\ timers' = timers \cup { requests }
         /\ ui' = s
         /\ UNCHANGED << ctrlAborted, completes, outcomes, pc >>

\* reader.read() yields one event with a content delta, a reasoning delta or
\* both: onReasoningChunk first, then onChunk.
ReadDelta ==
    /\ UNCHANGED << decoderVars, builderVars >>
    /\ pc = "reading"
    /\ requests \notin ctrlAborted
    /\ events < MaxEvents
    /\ \E c \in Chunks \cup { << >> }, r \in BOOLEAN :
          /\ c # << >> \/ r
          /\ LET s1 == IF r THEN onReasoningChunk(ui, ReasoningChunk) ELSE ui
                 s2 == IF c # << >> THEN onChunk(s1, c) ELSE s1
             IN  AfterLines(s2)
          /\ delivered' = delivered \o c
          /\ attemptText' = attemptText \o c
          /\ nReasoning' = IF r THEN nReasoning + 1 ELSE nReasoning
    /\ events' = events + 1
    /\ UNCHANGED << retries, aborted, requests, httpStatus, httpBody,
                    sendVars, errs, cancelledAt >>

\* reader.read() yields a comment line, or an event that is not a delta: no
\* callback, the watchdog is re-armed.
ReadKeepAlive ==
    /\ UNCHANGED << decoderVars, builderVars >>
    /\ pc = "reading"
    /\ requests \notin ctrlAborted
    /\ AfterLines(ui)
    /\ UNCHANGED << retries, aborted, requests, httpStatus, httpBody,
                    sendVars, delivered, attemptText, nReasoning, errs,
                    cancelledAt, events >>

\* reader.read() yields the [DONE] event, or reports the end of the body.
ReadDone ==
    /\ UNCHANGED << decoderVars, builderVars >>
    /\ pc = "reading"
    /\ requests \notin ctrlAborted
    /\ Finalize(ui)
    /\ UNCHANGED << retries, aborted, requests, httpStatus, httpBody,
                    sendVars, delivered, attemptText, nReasoning, errs,
                    cancelledAt, events >>

\* reader.read() rejects (connection lost, or the controller was aborted): the
\* finally block runs, then the catch block.
ReadRejects ==
    /\ UNCHANGED << decoderVars, builderVars >>
    /\ pc = "reading"
    /\ ctrlAborted' = ctrlAborted \cup { requests }
    /\ CatchBlock(RejectionOf(requests), timers \ { requests })
    /\ UNCHANGED << httpStatus, httpBody, cancelledAt, events >>

\* The watchdog callback of attempt n, with the flag left unset.
InactivityTimeoutNoFlag(n) ==
    /\ UNCHANGED << decoderVars, builderVars >>
    /\ n \in timers
    /\ timers' = timers \ { n }
    /\ ctrlAborted' = ctrlAborted \cup { n }
    /\ ui' = onError(ui)
    /\ errs' = Append(errs, "stall")
    /\ UNCHANGED << pc, retries, aborted, requests, httpStatus, httpBody,
                    sendVars, delivered, attemptText, nReasoning, completes,
                    outcomes, cancelledAt, events >>

\* The watchdog callback of attempt n: aborted = true, controller.abort(),
\* onError(stall). The flag is the local of the call that armed the timer: a
\* call that has returned leaves its flag to no one.
InactivityTimeout(n) ==
    /\ UNCHANGED << decoderVars, builderVars >>
    /\ n \in timers
    /\ timers' = timers \ { n }
    /\ aborted' = IF n > firstRequest THEN TRUE ELSE aborted
    /\ ctrlAborted' = ctrlAborted \cup { n }
    /\ ui' = onError(ui)
    /\ errs' = Append(errs, "stall")
    /\ UNCHANGED << pc, retries, requests, httpStatus, httpBody, sendVars,
                    delivered, attemptText, nReasoning, completes, outcomes,
                    cancelledAt, events >>

\* `await delay(RETRY_DELAY * retries)` is over: the loop test runs again.
BackoffElapsed ==
    /\ UNCHANGED << decoderVars, builderVars >>
    /\ pc = "backoff"
    /\ LoopIteration(retries, aborted, ui, timers)
    /\ UNCHANGED << retries, aborted, ctrlAborted, httpStatus, httpBody,
                    sendVars, delivered, nReasoning, completes, errs, outcomes,
                    cancelledAt, events >>

\* The user stops the stream: cancelCurrentStream aborts the controller it
\* holds, if any, and clears the in-flight state.
Cancel ==
    /\ UNCHANGED << decoderVars, builderVars >>
    /\ pc # "idle"
    /\ ctrlAborted' = IF ui.streamControllerRef # 0
                      THEN ctrlAborted \cup { ui.streamControllerRef }
                      ELSE ctrlAborted
    /\ ui' = cancelCurrentStream(ui)
    /\ cancelledAt' = IF cancelledAt = -1 THEN Len(delivered) ELSE cancelledAt
    /\ UNCHANGED << pc, retries, aborted, requests, timers, httpStatus,
                    httpBody, sendVars, delivered, attemptText, nReasoning,
                    completes, errs, outcomes, events >>

\* A requested animation frame runs its callback, flushStreaming.
AnimationFrame ==
    /\ UNCHANGED << decoderVars, builderVars >>
    /\ ui.frames > 0
    /\ ui' = flushStreaming(ui)
    /\ UNCHANGED << sessionVars, sendVars, historyVars, cancelledAt >>

\* The fallback timer started when isProcessing became true runs out.
FallbackTimer ==
    /\ UNCHANGED << decoderVars, builderVars >>
    /\ ui.isProcessing
    /\ ui' = resetStuckState(ui)
    /\ UNCHANGED << sessionVars, sendVars, historyVars, cancelledAt >>

Next ==
    \/ StartStream
    \/ StartStreamRejected
    \/ FetchResolves
    \/ FetchRejects
    \/ ErrorResponse
    \/ ReadDelta
    \/ ReadKeepAlive
    \/ ReadDone
    \/ ReadRejects
    \/ \E n \in timers : InactivityTimeout(n)
    \/ BackoffElapsed
    \/ Cancel
    \/ AnimationFrame
    \/ FallbackTimer

Spec == Init /\ [][Next]_vars

\* ---------------------------------------------------------------- sending with web search

\* One exchange sent with web search enabled, with no cancellation by the
\* user: the call started by handleSendMessage, and the call of the automatic
\* re-send if there is one.
\* The timeout set by onComplete runs out: the chat has an id, so
\* saveCurrentChat is called.
DeferredSave ==
    /\ UNCHANGED << decoderVars, builderVars >>
    /\ ui.saveTimers > 0
    /\ ui' = saveCurrentChat([ ui EXCEPT !.saveTimers = ui.saveTimers - 1,
                                         !.saves = ui.saves + 1 ])
    /\ UNCHANGED << sessionVars, sendVars, historyVars, cancelledAt >>

NextSend ==
    \/ SendMessage
    \/ FetchResolves
    \/ FetchRejects
    \/ ErrorResponse
    \/ ReadDelta
    \/ ReadKeepAlive
    \/ ReadDone
    \/ ReadRejects
    \/ \E n \in timers : InactivityTimeout(n)
    \/ BackoffElapsed
    \/ AnimationFrame
    \/ DeferredSave

SpecSend == Init /\ [][NextSend]_vars

\* ---------------------------------------------------------------- reading a body

\* The session, the chat context and their history.
streamVars == << sessionVars, sendVars, ui, historyVars, cancelledAt >>

\* The read loop of one attempt, over a response body the server has chosen;
\* no watchdog expiry, no cancellation and no network failure during it.
InitDecode ==
    /\ InitSession
    /\ NoRequestBuilt
    /\ body \in Bodies
    /\ consumed = 0
    /\ loop = NewLoop(<< >>)
    /\ reading = "reading"
    /\ cuts = {}

\* The kind of place where a read ending after q characters cuts the body:
\* between CR and LF, inside a line, or between the newline of an event's last
\* data line and the blank line that closes the event. parts is eventDataParts
\* after the read.
CutAt(q, parts) ==
    IF q >= Len(body) THEN {}
    ELSE IF body[q] = CR /\ body[q + 1] = LF THEN { "crlf" }
    ELSE IF body[q] # LF THEN { "line" }
    ELSE IF parts # << >> /\ body[q + 1] \in { CR, LF } THEN { "event" }
    ELSE {}

\* `await reader.read()` yields the next k bytes of the body, MaxRead at most:
\* they are decoded and the complete lines processed; when [DONE] was
\* dispatched the loop ends and the call finishes in the same task.
ReadBytes ==
    /\ reading = "reading"
    /\ consumed < Len(body)
    /\ \E k \in 1 .. Min(Len(body) - consumed, MaxRead) :
          \E d \in { ReadValue(loop, SubSeq(body, consumed + 1, consumed + k)) } :
          /\ consumed' = consumed + k
          /\ cuts' = cuts \cup CutAt(consumed + k, d.eventDataParts)
          /\ IF d.done
             THEN /\ loop' = [ d EXCEPT !.calls = AfterLoop(d) ]
                  /\ reading' = "returned"
             ELSE /\ loop' = d
                  /\ UNCHANGED reading
    /\ UNCHANGED << body, streamVars, builderVars >>

\* A faulty end of the body that is thrown into the catch block.
EndOfBodyThrows ==
    /\ reading = "reading"
    /\ consumed = Len(body)
    /\ loop' = [ loop EXCEPT !.done = TRUE ]
    /\ reading' = "caught"
    /\ UNCHANGED << body, consumed, cuts, streamVars, builderVars >>

\* `await reader.read()` reports the end of the body (done, no value): the
\* loop ends, then onUsage if a snapshot was kept, onComplete, return.
EndOfBody ==
    /\ reading = "reading"
    /\ consumed = Len(body)
    /\ loop' = [ loop EXCEPT !.done = TRUE, !.calls = AfterLoop(loop) ]
    /\ reading' = "returned"
    /\ UNCHANGED << body, consumed, cuts, streamVars, builderVars >>

NextDecode ==
    \/ ReadBytes
    \/ EndOfBody

SpecDecode == InitDecode /\ [][NextDecode]_vars

\* ---------------------------------------------------------------- building a request

\* The building of one request body: a model and a message list the caller
\* has chosen; no stream is followed.
InitBuild ==
    /\ InitSession
    /\ body = << >>
    /\ consumed = 0
    /\ loop = NewLoop(<< >>)
    /\ reading = "off"
    /\ cuts = {}
    /\ model \in Models
    /\ apiMessages \in Requests
    /\ cachedMessages = << >>
    /\ building = "ready"

\* const cachedMessages = transformMessagesForCaching(messages, modelToUse)
BuildRequest ==
    /\ building = "ready"
    /\ cachedMessages' = transformMessagesForCaching(apiMessages, modelToUse(model))
    /\ apiMessages' = CallerMessagesAfter(apiMessages, modelToUse(model))
    /\ building' = "built"
    /\ UNCHANGED << model, decoderVars, streamVars >>

\* The attempt has failed and the catch block has counted a retry: the next
\* iteration of the loop builds the request again from the same `messages`
\* and `options`.
RebuildRequest ==
    /\ building = "built"
    /\ retries < MAX_RETRIES
    /\ retries' = retries + 1
    /\ cachedMessages' = transformMessagesForCaching(apiMessages, modelToUse(model))
    /\ apiMessages' = CallerMessagesAfter(apiMessages, modelToUse(model))
    /\ UNCHANGED << model, building, decoderVars, pc, aborted, requests, timers,
                    ctrlAborted, httpStatus, httpBody, sendVars, ui, historyVars,
                    cancelledAt >>

NextBuild ==
    \/ BuildRequest
    \/ RebuildRequest

SpecBuild == InitBuild /\ [][NextBuild]_vars

TypeOK ==
    /\ pc \in { "idle", "fetching", "errbody", "reading", "backoff", "returned" }
    /\ retries \in 0 .. MAX_RETRIES
    /\ requests \in firstRequest .. firstRequest + MAX_RETRIES + 1
    /\ timers \subseteq 1 .. requests
    /\ ctrlAborted \subseteq 1 .. requests
    /\ events \in 0 .. MaxEvents
    /\ completes \in 0 .. 1
    /\ Len(outcomes) <= requests
    /\ cancelledAt \in -1 .. MaxEvents

\* ---------------------------------------------------------------- properties

\* A stall error has been passed to onError.
Stalled == \E i \in 1 .. Len(errs) : errs[i] = "stall"

\* Every attempt so far ended with a fetch rejected by a network error.
ThreeNetworkFailures == outcomes = << "network", "network", "network" >>

\* No attempt so far ended with a network error.
NoNetworkFailure == \A i \in 1 .. Len(outcomes) : outcomes[i] # "network"

\* C1: a stream that completes on its first attempt, without cancellation,
\* appends exactly one assistant message, whose content is the concatenation of
\* the chunks passed to onChunk, in order, however the animation frames
\* interleave with the chunks.
ContentIsConcatenation ==
    (completes = 1 /\ retries = 0 /\ ~cancelled) =>
        /\ Len(ui.messages) = 1
        /\ ui.messages[1].content = delivered

\* C1's case: two different chunks were delivered, then onComplete.
ContentIsConcatenationWitness ==
    /\ completes = 1
    /\ retries = 0
    /\ ~cancelled
    /\ delivered = << "a", "b" >>
    /\ Len(ui.messages) = 1

\* C2: when a call completes (here: with no cancellation and no watchdog
\* expiry), the chunks passed to onChunk over the whole call, retried attempts
\* included, are exactly the chunks of the response that completed, and they
\* are the content of the finalized message.
RetriesInvisible ==
    (completes = 1 /\ ~cancelled /\ errs = << >>) =>
        /\ delivered = attemptText
        /\ Len(ui.messages) = 1
        /\ ui.messages[1].content = attemptText

\* C3: every step leaves at most one terminal callback invoked (onComplete or
\* onError, once), and invokes no onChunk or onReasoningChunk once a terminal
\* callback has been invoked.
TerminalCallbackFinal ==
    [][ /\ completes' + Len(errs') <= 1
        /\ (completes + Len(errs) >= 1) =>
               (delivered' = delivered /\ nReasoning' = nReasoning) ]_vars

\* C4: once cancelCurrentStream was invoked after two chunks (here: in a call
\* with no network failure whose watchdog has not expired), the session invokes no further onChunk or
\* onReasoningChunk and no message is appended.
NoChunkAfterCancel ==
    [][ (cancelledAt = 2 /\ ~aborted /\ NoNetworkFailure) =>
            /\ delivered' = delivered
            /\ nReasoning' = nReasoning
            /\ ui'.messages = ui.messages ]_vars

\* C5: once the stream was cancelled the call issues no further HTTP request.
NoRequestAfterCancel ==
    [][ cancelled => requests' = requests ]_vars

\* C6: once the stream was cancelled the session does not invoke onError (here:
\* for an error other than a watchdog expiry) and no message is appended.
CancelIsSilent ==
    [][ (cancelled /\ ~aborted') =>
            /\ errs' = errs
            /\ ui'.toasts = ui.toasts
            /\ ui'.messages = ui.messages ]_vars

\* C7: a call whose three attempts all ended with a rejected fetch issued three
\* requests, never invokes onComplete, and invokes onError once: exactly once
\* when it has returned, and never a second time while its timers run out.
NetworkFailuresOneError ==
    ThreeNetworkFailures =>
        /\ requests = 3
        /\ completes = 0
        /\ Len(errs) <= 1
        /\ pc = "returned" => Len(errs) = 1

\* C8: when the first response is a 401 (no cancellation, no watchdog expiry)
\* the call has issued one request, has invoked onError once with the
\* authentication error, and has returned.
AuthErrorNotRetried ==
    (outcomes # << >> /\ outcomes[1] = "auth" /\ ~cancelled /\ ~aborted) =>
        /\ requests = 1
        /\ errs = << "auth" >>
        /\ pc = "returned"

\* C9: while the call waits for the response or for the next read of the body,
\* and its connection has not been aborted, the attempt's inactivity timer is
\* pending.
WatchdogAlwaysArmed ==
    (pc \in { "fetching", "reading" } /\ requests \notin ctrlAborted) =>
        requests \in timers

\* C10 as claimed: a stall error reaches onError only when the retry budget is
\* used up.
StallOnlyWhenBudgetExhausted ==
    Stalled => retries = MAX_RETRIES

\* C10 as amended: a watchdog expiry is terminal whatever the retries used: it
\* sets the aborted flag and passes the stall error to onError at once, and the
\* call issues no request afterwards.
StallIsTerminal ==
    [][ /\ Stalled' => aborted'
        /\ aborted' => Stalled'
        /\ Stalled => requests' = requests ]_vars

\* C10's case: the watchdog expired on the first attempt, and the call returned
\* with both retries unused.
StallIsTerminalWitness ==
    /\ Stalled
    /\ errs = << "stall" >>
    /\ pc = "returned"
    /\ requests = 1
    /\ retries = 0

\* C12: completion is write-once. A step changes the message list only by
\* appending, to the empty list, one message holding the content and reasoning
\* buffers as they are when onComplete first runs; and once the completion flag
\* is set (by onComplete, onError or cancelCurrentStream) no step changes the
\* buffers or the message list, whatever callbacks still arrive.
CompletionWriteOnce ==
    [][ /\ ui'.messages # ui.messages =>
               /\ ~ui.streamCompletedRef
               /\ ui.messages = << >>
               /\ ui'.messages = << [ role |-> "assistant",
                                      content |-> ui.streamingContentRef,
                                      reasoning |-> ui.reasoningContentRef ] >>
        /\ ui.streamCompletedRef =>
               /\ ui'.streamingContentRef = ui.streamingContentRef
               /\ ui'.reasoningContentRef = ui.reasoningContentRef
               /\ ui'.messages = ui.messages ]_vars

\* C12's case: after the cancellation a chunk and a reasoning chunk arrived and
\* onComplete ran, and neither the buffers nor the message list took them.
CompletionWriteOnceWitness ==
    /\ cancelledAt = 1
    /\ Len(delivered) = 2
    /\ nReasoning = 1
    /\ completes = 1
    /\ ui.streamingContentRef = SubSeq(delivered, 1, 1)
    /\ ui.reasoningContentRef = << >>
    /\ ui.messages = << >>

\* C18: the step in which onError runs leaves no frame requested, no
\* placeholder and the processing flag false, and appends no message; and no
\* later step appends one, so the content received before the error never
\* becomes a message.
ErrorDropsStream ==
    [][ /\ errs' # errs =>
               /\ ui'.frames = 0
               /\ ~ui'.rafIdRef
               /\ ~ui'.streamingMessage.present
               /\ ~ui'.isProcessing
        /\ errs' # << >> => ui'.messages = ui.messages ]_vars

\* C18's case: chunks were buffered with a flush pending when the stream ended
\* with onError, and the call has returned with no message.
ErrorDropsStreamWitness ==
    /\ Len(errs) = 1
    /\ pc = "returned"
    /\ completes = 0
    /\ ~cancelled
    /\ Len(ui.streamingContentRef) = 2
    /\ ui.messages = << >>
    /\ ui.frames = 0

\* C20: at most one frame callback is pending, and one is pending exactly
\* while rafIdRef holds its id; a chunk that arrives while one is pending
\* requests no second frame.
OneFlushPending ==
    /\ ui.frames <= 1
    /\ ui.rafIdRef <=> ui.frames = 1

\* C20's case: two chunks are buffered, none of them materialized yet, and one
\* flush is pending for both.
OneFlushPendingWitness ==
    /\ ui.frames = 1
    /\ Len(ui.streamingContentRef) = 2
    /\ ui.streamingMessage.present
    /\ ui.streamingMessage.content = << >>

\* The callbacks of a call whose whole body arrives in one read, followed by
\* the end of the body, and the payloads it dispatches.
Unsplit(bytes) ==
    LET d == ReadValue(NewLoop(<< >>), bytes)
    IN  [ d EXCEPT !.done = TRUE, !.calls = AfterLoop(d) ]

\* [DONE] is among the payloads dispatched.
DoneDispatched ==
    \E i \in 1 .. Len(loop.dispatched) : loop.dispatched[i] = DoneText

\* The invocations of the callback `name` in the log.
CallsOf(name) ==
    SelectSeq(loop.calls, LAMBDA c : c.callback = name)

\* C13: however the body is split into reads, the loop's locals, the payloads
\* dispatched and the callbacks invoked after the reads so far are those of
\* one read of the same bytes, and a call that has returned has dispatched
\* the payloads and invoked the callbacks of the unsplit body.
SplitInvariance ==
    /\ reading = "reading" =>
           loop = ReadValue(NewLoop(<< >>), SubSeq(body, 1, consumed))
    /\ reading = "returned" =>
           /\ loop.dispatched = Unsplit(body).dispatched
           /\ loop.calls = Unsplit(body).calls

\* C13's case: reads ended inside a line, between CR and LF, and between the
\* two newlines that end an event; the two events of the body were decoded.
SplitInvarianceWitness ==
    /\ reading = "returned"
    /\ cuts = { "line", "crlf", "event" }
    /\ loop.dispatched = << << "c", "a" >>, << "c", "b" >> >>
    /\ loop.calls = << Call("onChunk", << "a" >>), Call("onChunk", << "b" >>),
                       Call("onComplete", << >>) >>

\* C14: once [DONE] was dispatched the call has returned (no later read is
\* decoded), [DONE] is the last payload dispatched, and the log ends with the
\* one onComplete.
DoneStopsDecoding ==
    DoneDispatched =>
        /\ reading = "returned"
        /\ loop.dispatched[Len(loop.dispatched)] = DoneText
        /\ Len(CallsOf("onComplete")) = 1
        /\ loop.calls[Len(loop.calls)] = Call("onComplete", << >>)

\* C14's case: a complete content event follows [DONE] in the body and was
\* read together with the blank line that closes [DONE]; it reached no callback.
DoneStopsDecodingWitness ==
    /\ body = Encode(<< DataField \o << " " >> \o DoneText, << >>,
                        DataField \o << "c", "b" >>, << >> >>, << LF >>)
    /\ consumed = Len(body)
    /\ reading = "returned"
    /\ loop.calls = << Call("onComplete", << >>) >>

\* C15: a call that returned without [DONE] has read the whole body and
\* processed every complete line of it, then invoked onComplete, once and
\* last; it never invokes onError and never enters the catch block.
CleanEndCompletes ==
    /\ reading \in { "reading", "returned" }
    /\ CallsOf("onError") = << >>
    /\ (reading = "returned" /\ ~DoneDispatched) =>
           /\ consumed = Len(body)
           /\ indexOf(loop.buffer, 0) = 0
           /\ Len(CallsOf("onComplete")) = 1
           /\ loop.calls[Len(loop.calls)] = Call("onComplete", << >>)

\* C15's case: the body ends after two events, with no [DONE].
CleanEndCompletesWitness ==
    /\ reading = "returned"
    /\ ~DoneDispatched
    /\ cuts = {}
    /\ loop.dispatched = << << "c", "a" >>, << "c", "b" >> >>
    /\ loop.calls = << Call("onChunk", << "a" >>), Call("onChunk", << "b" >>),
                       Call("onComplete", << >>) >>

\* The usage objects of the payloads dispatched, in order.
RECURSIVE UsagesOf(_)
UsagesOf(payloads) ==
    IF payloads = << >> THEN << >>
    ELSE (IF JSONparse(Head(payloads)).usage # << >>
          THEN << JSONparse(Head(payloads)).usage >>
          ELSE << >>) \o UsagesOf(Tail(payloads))

\* C16: when the call has returned, onUsage was invoked once, with the last
\* usage object decoded and immediately before onComplete, if a usage object
\* was decoded, and not at all otherwise.
LastUsageKept ==
    reading = "returned" =>
        LET seen == UsagesOf(loop.dispatched)
            n == Len(loop.calls)
        IN  IF seen = << >>
            THEN CallsOf("onUsage") = << >>
            ELSE /\ CallsOf("onUsage") = << Call("onUsage", seen[Len(seen)]) >>
                 /\ n >= 2
                 /\ loop.calls[n - 1] = Call("onUsage", seen[Len(seen)])
                 /\ loop.calls[n] = Call("onComplete", << >>)

\* C16's case: two events carried usage objects, 1 and then 2.
LastUsageKeptWitness ==
    /\ reading = "returned"
    /\ UsagesOf(loop.dispatched) = << << "1" >>, << "2" >> >>
    /\ loop.calls = << Call("onChunk", << "b" >>), Call("onUsage", << "2" >>),
                       Call("onComplete", << >>) >>

\* The chunk callbacks that the payloads dispatched call for, in order: none
\* for a payload that is not JSON, onReasoningChunk then onChunk for the others.
RECURSIVE ChunkCallsFor(_)
ChunkCallsFor(payloads) ==
    IF payloads = << >> THEN << >>
    ELSE LET parsed == JSONparse(Head(payloads)) IN
         (IF parsed.ok /\ parsed.reasoning # << >>
          THEN << Call("onReasoningChunk", parsed.reasoning) >> ELSE << >>)
         \o (IF parsed.ok /\ parsed.content # << >>
             THEN << Call("onChunk", parsed.content) >> ELSE << >>)
         \o ChunkCallsFor(Tail(payloads))

\* C17: a dispatched payload that is not JSON invokes no callback and does not
\* end the call: the chunk callbacks in the log are those of the valid payloads
\* dispatched, in order, no onError is logged, and the call returns only at
\* the end of the body or on [DONE].
InvalidJsonIgnored ==
    /\ SelectSeq(loop.calls, LAMBDA c : c.callback \in { "onChunk", "onReasoningChunk" })
           = ChunkCallsFor(loop.dispatched)
    /\ CallsOf("onError") = << >>
    /\ reading # "reading" =>
           /\ reading = "returned"
           /\ consumed = Len(body) \/ DoneDispatched

\* C17's case: a payload that is not JSON was dispatched in a read of its own,
\* and the valid event after it reached onChunk.
InvalidJsonIgnoredWitness ==
    /\ reading = "returned"
    /\ loop.dispatched = << << "{" >>, << "c", "a" >> >>
    /\ cuts # {}
    /\ loop.calls = << Call("onChunk", << "a" >>), Call("onComplete", << >>) >>

\* The watchdog of an attempt of an earlier call, one that has returned, runs
\* in this step.
OldWatchdogFires ==
    \E n \in 1 .. firstRequest : n \in timers /\ n \notin timers'

\* C11: once a later stream was started (here: by the re-send), a callback
\* that comes from the earlier call changes neither the buffers, nor the
\* placeholder, nor the processing flag, nor the message list.
StreamStateOfOneSession ==
    [][ (sends = 2 /\ OldWatchdogFires) =>
            /\ ui'.streamingContentRef = ui.streamingContentRef
            /\ ui'.reasoningContentRef = ui.reasoningContentRef
            /\ ui'.streamingMessage = ui.streamingMessage
            /\ ui'.isProcessing = ui.isProcessing
            /\ ui'.messages = ui.messages ]_vars

\* The number of messages of the user in a message list.
UserMessagesIn(messages) ==
    Len(SelectSeq(messages, LAMBDA m : m.role = "user"))

\* C19: handleSendMessage runs at most twice for one exchange. When the
\* terminal error of a send with web search mentions the plugin, the same step
\* re-sends: a new call is started whose requests carry no plugins, with web
\* search off, and no error toast is shown; nothing else starts a send. An
\* error that ends the re-send is shown as an error toast and starts nothing.
\* After every step the message list holds the user's message exactly once.
WebSearchResentOnce ==
    [][ /\ sends' <= 2
        /\ (webSearchActive /\ errs' = Append(errs, "plugin")) =>
               /\ sends = 1
               /\ sends' = 2
               /\ ~plugins'
               /\ ~webSearchActive'
               /\ pc' = "fetching"
               /\ requests' = requests + 1
               /\ ui'.toasts = ui.toasts
        /\ (sends >= 1 /\ sends' # sends) =>
               (webSearchActive /\ errs' = Append(errs, "plugin"))
        /\ (sends = 2 /\ errs' # errs) =>
               /\ sends' = 2
               /\ requests' = requests
               /\ ui'.toasts = ui.toasts + 1
        /\ sends' >= 1 => UserMessagesIn(ui'.messages) = 1 ]_vars

\* C19's case: the send with web search ended with a plugin error, the re-send
\* ran without plugins and failed too; its error was shown and the call
\* returned, with the user's message once in the list.
WebSearchResentOnceWitness ==
    /\ sends = 2
    /\ ~plugins
    /\ pc = "returned"
    /\ errs = << "plugin", StatusMessage(500) >>
    /\ ui.toasts = 1
    /\ ui.messages = << UserMessage >>

\* ---------------------------------------------------------------- properties of the request builder

\* The request's model is of a family with explicit cache breakpoints.
CacheCapable ==
    detectModelFamily(modelToUse(model)) \in { "anthropic", "gemini" }

\* A text of `length` characters estimates to at least 4096 tokens.
LargeText(text) ==
    (text.length + 3) \div 4 >= 4096

\* Message m has a text at or above the threshold.
HasLargeText(m) ==
    IF m.content.type = "string" THEN LargeText(m.content.text)
    ELSE \E i \in 1 .. Len(m.content.parts) :
            /\ m.content.parts[i].type = "text"
            /\ LargeText(m.content.parts[i].text)

\* The number of segments of message m that carry cache_control.
Annotated(m) ==
    IF m.content.type = "string" THEN 0
    ELSE Cardinality({ i \in 1 .. Len(m.content.parts) :
                         "cache_control" \in DOMAIN m.content.parts[i] })

\* The number of annotated segments in the first n messages of a list.
RECURSIVE AnnotatedIn(_, _)
AnnotatedIn(messages, n) ==
    IF n = 0 THEN 0
    ELSE AnnotatedIn(messages, n - 1) + Annotated(messages[n])

\* The number of messages with a text at or above the threshold before message i.
LargeBefore(messages, i) ==
    Cardinality({ j \in 1 .. i - 1 : HasLargeText(messages[j]) })

\* C21 as stated: for a cache-capable model every message that has a text at or
\* above the threshold carries exactly one annotated segment in the built
\* request, and the request carries at most 4 annotated segments.
EveryLargeMessageAnnotatedOnce ==
    (building = "built" /\ CacheCapable) =>
        /\ Len(cachedMessages) = Len(apiMessages)
        /\ \A i \in 1 .. Len(apiMessages) :
              HasLargeText(apiMessages[i]) => Annotated(cachedMessages[i]) = 1
        /\ AnnotatedIn(cachedMessages, Len(cachedMessages)) <= 4

\* C21, amended: for a cache-capable model the first 4 messages that have a
\* text at or above the threshold carry exactly one annotated segment each in
\* the built request, every other message carries none, and so the request
\* carries at most 4 annotated segments.
FirstFourLargeAnnotatedOnce ==
    (building = "built" /\ CacheCapable) =>
        /\ Len(cachedMessages) = Len(apiMessages)
        /\ \A i \in 1 .. Len(apiMessages) :
              Annotated(cachedMessages[i]) =
                 IF HasLargeText(apiMessages[i]) /\ LargeBefore(apiMessages, i) < 4
                 THEN 1 ELSE 0
        /\ AnnotatedIn(cachedMessages, Len(cachedMessages)) <= 4

\* A request for a cache-capable model has been built from five messages with
\* a text at or above the threshold, one of them with two such texts: the first
\* four carry one annotated segment each and the fifth carries none.
FirstFourLargeAnnotatedOnceWitness ==
    /\ building = "built"
    /\ CacheCapable
    /\ Len(apiMessages) = 5
    /\ \A i \in 1 .. 5 : HasLargeText(apiMessages[i])
    /\ apiMessages[2].content.type = "array"
    /\ Len(apiMessages[2].content.parts) = 3
    /\ \A i \in 1 .. 4 : Annotated(cachedMessages[i]) = 1
    /\ Annotated(cachedMessages[5]) = 0

\* The request's model is named anthropic/claude-...
AnthropicClaude ==
    startsWith(modelToUse(model),
               << "a", "n", "t", "h", "r", "o", "p", "i", "c", "/",
                  "c", "l", "a", "u", "d", "e", "-" >>)

\* The request's model is of a family without explicit caching.
NoExplicitCaching ==
    detectModelFamily(modelToUse(model)) \in { "openai", "grok", "deepseek", "other" }

\* Message m is a string at or above the threshold.
LargeString(m) ==
    m.content.type = "string" /\ LargeText(m.content.text)

\* Message m is a 1-part array holding `text` with cache_control present.
OnePartWithCacheControl(m, text) ==
    /\ m.content.type = "array"
    /\ Len(m.content.parts) = 1
    /\ m.content.parts[1].type = "text"
    /\ m.content.parts[1].text = text
    /\ "cache_control" \in DOMAIN m.content.parts[1]

\* C22 as stated: for an anthropic/claude-... model a string message at or above
\* the threshold is turned into a 1-part content array holding the same text
\* with cache_control present; for a model of a family without explicit caching
\* every message is returned unchanged, with no cache_control anywhere.
LargeStringBecomesOnePart ==
    building = "built" =>
        /\ AnthropicClaude =>
              \A i \in 1 .. Len(apiMessages) :
                 LargeString(apiMessages[i]) =>
                    OnePartWithCacheControl(cachedMessages[i],
                                            apiMessages[i].content.text)
        /\ NoExplicitCaching =>
              /\ cachedMessages = apiMessages
              /\ AnnotatedIn(cachedMessages, Len(cachedMessages)) = 0

\* C22, amended: for an anthropic/claude-... model a string message at or above
\* the threshold that has fewer than 4 messages with a text at or above the
\* threshold before it is turned into a 1-part content array holding the same
\* text with cache_control present, and one that has 4 or more before it is
\* returned unchanged; for a model of a family without explicit caching every
\* message is returned unchanged, with no cache_control anywhere.
LargeStringBecomesOnePartUpToFour ==
    building = "built" =>
        /\ AnthropicClaude =>
              \A i \in 1 .. Len(apiMessages) :
                 LargeString(apiMessages[i]) =>
                    IF LargeBefore(apiMessages, i) < 4
                    THEN OnePartWithCacheControl(cachedMessages[i],
                                                 apiMessages[i].content.text)
                    ELSE cachedMessages[i] = apiMessages[i]
        /\ NoExplicitCaching =>
              /\ cachedMessages = apiMessages
              /\ AnnotatedIn(cachedMessages, Len(cachedMessages)) = 0

\* A request for an anthropic/claude-... model has been built from five strings
\* at or above the threshold: the first is a 1-part array with its text and
\* cache_control, the fifth is the string it was.
LargeStringBecomesOnePartUpToFourWitness ==
    /\ building = "built"
    /\ AnthropicClaude
    /\ Len(apiMessages) = 5
    /\ \A i \in 1 .. 5 : LargeString(apiMessages[i])
    /\ OnePartWithCacheControl(cachedMessages[1], apiMessages[1].content.text)
    /\ cachedMessages[5] = apiMessages[5]

\* ---------------------------------------------------------------- properties of the error classification

\* The error of the attempt that ends in this step, when the step is the throw
\* of handleApiError.
ClassifiedAs(err) ==
    (pc = "errbody" /\ pc' # "errbody") => outcomes' = Append(outcomes, err)

\* C23 as stated: a non-2xx response is classified by status: 401 gives the
\* authentication error, 429 the rate-limit error, both regardless of the body;
\* any other status gives the server-provided error.message when the body
\* parses as JSON with that field, and otherwise the text built from the status.
ErrorClassifiedByStatus ==
    [][ ClassifiedAs(IF httpStatus = 401 THEN "auth"
                     ELSE IF httpStatus = 429 THEN "rate"
                     ELSE IF httpBody.json /\ httpBody.hasMessage
                          THEN httpBody.message
                     ELSE StatusMessage(httpStatus)) ]_vars

\* C23, amended: as stated, with the server-provided error.message used only
\* when it is not empty; a body that does not parse, has no error.message or
\* has an empty one gives the text built from the status.
ErrorClassifiedByStatusAndMessage ==
    [][ ClassifiedAs(IF httpStatus = 401 THEN "auth"
                     ELSE IF httpStatus = 429 THEN "rate"
                     ELSE IF /\ httpBody.json
                             /\ httpBody.hasMessage
                             /\ httpBody.message # ""
                          THEN httpBody.message
                     ELSE StatusMessage(httpStatus)) ]_vars

\* Three responses have been classified: a 401, a 500 whose body carries a
\* message, and a 500 for which the text built from the status was used.
ErrorClassifiedByStatusAndMessageWitness ==
    outcomes = << "auth", "other", StatusMessage(500) >>

\* ---------------------------------------------------------------- properties of the line loop

\* The loop's state before any line was processed, as the log records it.
BeforeLines ==
    [ line |-> << >>, parts |-> << >>, dispatched |-> 0, calls |-> 0, resets |-> 0 ]

\* The loop's state before the k-th line it processed.
Before(k) ==
    IF k = 1 THEN BeforeLines ELSE loop.lines[k - 1]

\* The k-th line processed begins with ':'.
CommentAt(k) ==
    loop.lines[k].line # << >> /\ loop.lines[k].line[1] = ":"

\* The k-th line processed begins with 'data:'.
DataAt(k) ==
    /\ Len(loop.lines[k].line) >= 5
    /\ SubSeq(loop.lines[k].line, 1, 5) = << "d", "a", "t", "a", ":" >>

\* C24: a line beginning with ':' leaves the buffered data lines and the
\* payloads dispatched as they were and invokes no callback, and it calls
\* resetInactivity once, as a data line does.
CommentLineOnlyRearms ==
    \A k \in 1 .. Len(loop.lines) :
        /\ CommentAt(k) =>
              /\ loop.lines[k].parts = Before(k).parts
              /\ loop.lines[k].dispatched = Before(k).dispatched
              /\ loop.lines[k].calls = Before(k).calls
              /\ loop.lines[k].resets = Before(k).resets + 1
        /\ DataAt(k) => loop.lines[k].resets = Before(k).resets + 1

\* C24's case: a comment line arrived between the two data lines of an event;
\* the event was dispatched with the two values only and both of its callbacks
\* were invoked.
CommentLineOnlyRearmsWitness ==
    /\ Len(loop.lines) >= 4
    /\ DataAt(1)
    /\ CommentAt(2)
    /\ DataAt(3)
    /\ loop.lines[2].resets = 2
    /\ loop.dispatched = << << "r", "r", LF, "c", "a" >> >>
    /\ Len(loop.calls) = 2

\* C25: every read that hands bytes to the loop re-arms the watchdog, whatever
\* the bytes are (an event:, id: or retry: line, or a part of a line not yet
\* terminated by a newline), so that the stall abort needs an interval in which
\* no byte was received.
EveryReadRearms ==
    [][ (consumed' > consumed /\ reading' = "reading") =>
            loop'.resets > loop.resets ]_vars

\* The values of buffered data lines joined by a single newline, in order.
RECURSIVE JoinedByNewline(_)
JoinedByNewline(values) ==
    IF Len(values) = 1 THEN values[1]
    ELSE values[1] \o << "\n" >> \o JoinedByNewline(Tail(values))

\* What follows the prefix 'data: ', or else the prefix 'data:', in a data line.
ValueOf(line) ==
    IF Len(line) >= 6 /\ line[6] = " "
    THEN SubSeq(line, 7, Len(line))
    ELSE SubSeq(line, 6, Len(line))

\* C26: a blank line dispatches the data lines buffered since the previous
\* dispatch as one payload, their values (what follows 'data: ' or 'data:')
\* joined by a single newline in arrival order, and empties the buffer; a blank
\* line with nothing buffered dispatches nothing and invokes no callback; a
\* data line adds its value to the buffer and dispatches nothing; every other
\* line (event:, id:, retry:, comment) changes neither; nothing is dispatched
\* but by a blank line.
BlankLineDispatchesJoinedData ==
    /\ Len(loop.dispatched) =
          IF loop.lines = << >> THEN 0
          ELSE loop.lines[Len(loop.lines)].dispatched
    /\ \A k \in 1 .. Len(loop.lines) :
          LET e == loop.lines[k]
              b == Before(k)
          IN  IF e.line = << >>
              THEN /\ e.parts = << >>
                   /\ IF b.parts # << >>
                      THEN /\ e.dispatched = b.dispatched + 1
                           /\ loop.dispatched[e.dispatched] = JoinedByNewline(b.parts)
                      ELSE /\ e.dispatched = b.dispatched
                           /\ e.calls = b.calls
              ELSE IF DataAt(k)
              THEN /\ e.parts = Append(b.parts, ValueOf(e.line))
                   /\ e.dispatched = b.dispatched
              ELSE /\ e.parts = b.parts
                   /\ e.dispatched = b.dispatched

\* C26's case: an event: line and a blank line with nothing buffered, which
\* dispatched nothing, then the lines 'data:rr', a comment and 'data: ca' and a
\* blank line, which dispatched the one payload 'rr', newline, 'ca'.
BlankLineDispatchesJoinedDataWitness ==
    /\ Len(loop.lines) = 6
    /\ loop.lines[1].line = << "e", "v", "e", "n", "t", ":", "m" >>
    /\ loop.lines[2].line = << >>
    /\ loop.lines[2].dispatched = 0
    /\ loop.lines[3].line = << "d", "a", "t", "a", ":", "r", "r" >>
    /\ loop.lines[5].line = << "d", "a", "t", "a", ":", " ", "c", "a" >>
    /\ loop.dispatched = << << "r", "r", "\n", "c", "a" >> >>
    /\ CallsOf("onReasoningChunk") = << Call("onReasoningChunk", << "r" >>) >>
    /\ CallsOf("onChunk") = << Call("onChunk", << "a" >>) >>

\* The bytes of a body up to its last newline: the body without a trailing
\* line that has no terminating newline.
UpToLastNewline(bytes) ==
    LET ends == { i \in 1 .. Len(bytes) : bytes[i] = "\n" }
    IN  IF ends = {} THEN << >>
        ELSE SubSeq(bytes, 1, CHOOSE i \in ends : \A j \in ends : j <= i)

\* The body ends with a line that has no terminating newline.
TrailingLine ==
    body # << >> /\ body[Len(body)] # "\n"

\* C27: when the call has returned from a body that ends with a line without
\* its newline, the lines processed, the payloads dispatched and the callbacks
\* invoked are those of the same body without that line, the log ends with
\* onComplete and holds no onError; the loop never enters the catch block.
UnterminatedLineDropped ==
    /\ reading \in { "reading", "returned" }
    /\ (reading = "returned" /\ TrailingLine) =>
           LET u == Unsplit(UpToLastNewline(body))
           IN  /\ loop.lines = u.lines
               /\ loop.dispatched = u.dispatched
               /\ loop.calls = u.calls
               /\ loop.calls[Len(loop.calls)] = Call("onComplete", << >>)
               /\ CallsOf("onError") = << >>

\* C27's case: after one event the body ended with the bytes 'data: cb' and no
\* newline; they are still in the buffer, and the call returned with the
\* first event's chunk and onComplete.
UnterminatedLineDroppedWitness ==
    /\ reading = "returned"
    /\ TrailingLine
    /\ consumed = Len(body)
    /\ loop.buffer = << "d", "a", "t", "a", ":", " ", "c", "b" >>
    /\ loop.dispatched = << << "c", "a" >> >>
    /\ loop.calls = << Call("onChunk", << "a" >>), Call("onComplete", << >>) >>

\* C28: when the call has returned with data lines still buffered (received
\* with their newline, and no blank line after them), those lines invoked no
\* callback when they were read, nothing was dispatched after the last line,
\* and the callbacks after the last line are onUsage with the last usage object
\* of the payloads dispatched, if there is one, and then onComplete.
PendingDataDropped ==
    (reading = "returned" /\ loop.eventDataParts # << >>) =>
        LET n == Len(loop.lines)
            seen == UsagesOf(loop.dispatched)
        IN  /\ loop.lines[n].parts = loop.eventDataParts
            /\ \A k \in 1 .. n : DataAt(k) => loop.lines[k].calls = Before(k).calls
            /\ Len(loop.dispatched) = loop.lines[n].dispatched
            /\ SubSeq(loop.calls, loop.lines[n].calls + 1, Len(loop.calls))
                  = (IF seen = << >> THEN << >>
                     ELSE << Call("onUsage", seen[Len(seen)]) >>)
                    \o << Call("onComplete", << >>) >>

\* C28's case: an event with content b and usage 2 was dispatched, then the
\* line 'data: cau1' arrived and the body ended: the call returned with the
\* line still buffered, the chunk a never passed on and usage 1 never reported.
PendingDataDroppedWitness ==
    /\ reading = "returned"
    /\ loop.eventDataParts = << << "c", "a", "u", "1" >> >>
    /\ loop.dispatched = << << "c", "b", "u", "2" >> >>
    /\ loop.calls = << Call("onChunk", << "b" >>), Call("onUsage", << "2" >>),
                       Call("onComplete", << >>) >>

\* ---------------------------------------------------------------- properties of the placeholder

\* This step is the callback of a requested frame, flushStreaming.
FlushStep ==
    /\ ui'.frames = ui.frames - 1
    /\ UNCHANGED << sessionVars, sendVars, historyVars, cancelledAt >>

\* C29: when flushStreaming runs while a placeholder exists, the placeholder's
\* content becomes the content buffer as it is at that step and nothing else
\* of the placeholder changes; without a placeholder none is made; the buffers
\* are not touched; and flushStreaming run again on the result leaves the
\* placeholder as it is.
FlushProjectsBuffer ==
    [][ FlushStep =>
          /\ ui'.streamingMessage =
                IF ui.streamingMessage.present
                THEN [ ui.streamingMessage EXCEPT !.content = ui.streamingContentRef ]
                ELSE ui.streamingMessage
          /\ ui'.streamingContentRef = ui.streamingContentRef
          /\ ui'.reasoningContentRef = ui.reasoningContentRef
          /\ flushStreaming(ui').streamingMessage = ui'.streamingMessage ]_vars

\* C29's case: two chunks were buffered before the requested frame ran; after
\* the flush the placeholder shows both.
FlushProjectsBufferWitness ==
    /\ pc = "reading"
    /\ ui.streamingMessage.present
    /\ Len(ui.streamingContentRef) = 2
    /\ ui.streamingMessage.content = ui.streamingContentRef
    /\ ui.frames = 0

\* The stream is live before this step and its placeholder is there after it:
\* the stream has not been completed, failed or cancelled, and the step
\* delivers one delta event.
LiveDelta ==
    /\ events' = events + 1
    /\ ~ui.streamCompletedRef
    /\ ui.streamingMessage.present
    /\ ui'.streamingMessage.present

\* C30: when an event of a live stream carries a content delta, the
\* placeholder's reasoningVisible is false after the step, also when the event
\* carries a reasoning delta too; when it carries a reasoning delta only,
\* reasoningVisible is true after it; with a reasoning delta the placeholder's
\* reasoning is the whole reasoning buffer, old buffer and delta, in the same
\* step, while the content shown is left to the flush.
ReasoningFlagFollowsDeltas ==
    [][ LiveDelta =>
          /\ delivered' # delivered => ~ui'.streamingMessage.reasoningVisible
          /\ nReasoning' # nReasoning =>
                /\ ui'.reasoningContentRef = ui.reasoningContentRef \o ReasoningChunk
                /\ ui'.streamingMessage.reasoning = ui'.reasoningContentRef
                /\ delivered' = delivered => ui'.streamingMessage.reasoningVisible
          /\ ui'.streamingMessage.content = ui.streamingMessage.content ]_vars

\* C30's case: the first event carried a reasoning and a content delta; the
\* placeholder has the reasoning and hides it, and the content waits in the
\* buffer for the requested frame.
ReasoningFlagFollowsDeltasWitness ==
    /\ events = 1
    /\ pc = "reading"
    /\ ui.streamingMessage.present
    /\ ui.streamingMessage.reasoning = ReasoningChunk
    /\ ~ui.streamingMessage.reasoningVisible
    /\ ui.streamingMessage.content = << >>
    /\ ui.streamingContentRef # << >>
    /\ ui.frames = 1

\* ---------------------------------------------------------------- properties of the call as a whole

\* The terminal callbacks the current call has delivered: onComplete and onError.
TerminalCallbacks ==
    completes + Len(errs)

\* C31: a streamResponse call that is not cancelled issues at most 3 requests
\* (one attempt and at most MAX_RETRIES retries) and delivers at most one
\* terminal callback: a result (onComplete) or one terminal error (onError).
AtMostThreeRequestsOneOutcome ==
    ~cancelled =>
        /\ requests - firstRequest <= MAX_RETRIES + 1
        /\ TerminalCallbacks <= 1

\* An attempt of the call is in flight: its request was sent and the attempt
\* has not ended.
InFlight ==
    pc \in { "fetching", "errbody", "reading" }

\* C32: the step that sends the request of an attempt hands that attempt's
\* controller to the caller first, before any chunk of the attempt; and while
\* an attempt is in flight and the stream has not been completed, failed or
\* cancelled on the caller's side, the handle the caller holds is the
\* controller of that attempt.
ControllerOfCurrentAttempt ==
    [][ /\ requests' # requests =>
              /\ requests' = requests + 1
              /\ ui'.streamControllerRef = requests'
              /\ attemptText' = << >>
        /\ (InFlight' /\ ~ui'.streamCompletedRef) =>
              ui'.streamControllerRef = requests' ]_vars

\* C32's case: the first attempt failed and was retried; the second attempt is
\* delivering chunks and the caller holds its controller.
ControllerOfCurrentAttemptWitness ==
    /\ pc = "reading"
    /\ requests = 2
    /\ outcomes = << "network" >>
    /\ attemptText # << >>
    /\ ~ui.streamCompletedRef
    /\ ui.streamControllerRef = 2

\* The in-flight state of the chat context: isProcessing and a placeholder.
InFlightState(s) ==
    s.isProcessing /\ s.streamingMessage.present

\* C33: the in-flight state is cleared only by the completion of the stream,
\* by an error callback (the watchdog's among them) or by the user's cancel;
\* no other timer clears it.
OnlyWatchdogOrCancelEnds ==
    [][ (InFlightState(ui) /\ ~InFlightState(ui')) =>
            \/ completes' # completes
            \/ errs' # errs
            \/ cancelledAt' # cancelledAt ]_vars

\* C34: whenever isProcessing is false after a stream was started, the stream
\* issues no further request and invokes no further chunk, reasoning,
\* completion or error callback.
NoActivityWhileNotProcessing ==
    [][ (pc # "idle" /\ ~ui.isProcessing) =>
            /\ requests' = requests
            /\ delivered' = delivered
            /\ nReasoning' = nReasoning
            /\ completes' = completes
            /\ errs' = errs ]_vars

\* A part without its cache_control member.
WithoutCacheControl(p) ==
    [ k \in DOMAIN p \ { "cache_control" } |-> p[k] ]

\* Part j of a part list carries cache_control.
HasCacheControl(parts, j) ==
    "cache_control" \in DOMAIN parts[j]

\* C35: the built request has at most one annotated part per message; a
\* multi-part message keeps the number, order, type and text of its parts, and
\* a part that carries cache_control is a text part at or above the threshold
\* with no such text part after it.
BreakpointOnLastLargeTextPart ==
    building = "built" =>
        /\ Len(cachedMessages) = Len(apiMessages)
        /\ \A i \in 1 .. Len(apiMessages) :
              /\ Annotated(cachedMessages[i]) <= 1
              /\ apiMessages[i].content.type = "array" =>
                    LET before == apiMessages[i].content.parts
                        after == cachedMessages[i].content
                    IN  /\ after.type = "array"
                        /\ Len(after.parts) = Len(before)
                        /\ \A j \in 1 .. Len(before) :
                              /\ WithoutCacheControl(after.parts[j]) = before[j]
                              /\ HasCacheControl(after.parts, j) =>
                                    /\ before[j].type = "text"
                                    /\ LargeText(before[j].text)
                                    /\ \A k \in j + 1 .. Len(before) :
                                          ~(/\ before[k].type = "text"
                                            /\ LargeText(before[k].text))

\* A request for a cache-capable model has been built whose first message has
\* two texts at or above the threshold followed by an image and whose second
\* has a small text and an image: the breakpoint of the first is on its second
\* part only and the second message has none.
BreakpointOnLastLargeTextPartWitness ==
    /\ building = "built"
    /\ CacheCapable
    /\ Len(apiMessages) >= 2
    /\ apiMessages[1].content.type = "array"
    /\ Len(apiMessages[1].content.parts) = 3
    /\ LargeText(apiMessages[1].content.parts[1].text)
    /\ ~HasCacheControl(cachedMessages[1].content.parts, 1)
    /\ HasCacheControl(cachedMessages[1].content.parts, 2)
    /\ ~HasCacheControl(cachedMessages[1].content.parts, 3)
    /\ apiMessages[2].content.type = "array"
    /\ ~HasLargeText(apiMessages[2])
    /\ Annotated(cachedMessages[2]) = 0

TimersEndWithTheirAttempt ==
    /\ Cardinality(timers) <= 1
    /\ \A n \in timers :
          /\ n = requests
          /\ pc \in { "fetching", "reading" }
          /\ TerminalCallbacks = 0

\* C38: once streamResponse has rejected before issuing a request or invoking
\* a callback, isProcessing is false and there is no streaming placeholder.
RejectedStartLeavesNothing ==
    (pc = "returned" /\ requests = 0) =>
        /\ ~ui.isProcessing
        /\ ~ui.streamingMessage.present

\* C39: when the deferred save of a completed stream has run, the stored
\* message list and the snapshot of the chat equal the in-memory message
\* list, which ends with the user message of the turn and the finalized
\* assistant message.
DeferredSaveKeepsResult ==
    [][ ui'.saves > ui.saves =>
            /\ ui'.stored = ui'.messages
            /\ ui'.snapshot = ui'.messages
            /\ Len(ui'.stored) >= 2
            /\ ui'.stored[Len(ui'.stored) - 1] = UserMessage
            /\ ui'.stored[Len(ui'.stored)].role = "assistant" ]_vars
====
